---- MODULE Spec2Model ----
(***************************************************************************)
(* Model of the commando crate: the Command / Commander traits             *)
(* (src/src/lib.rs), the derived Commander::execute                        *)
(* (src/stratagem-macros/src/lib.rs), the TimeMachine history engine       *)
(* (src/src/time_machine.rs) and the Translate / Scale commands the crate  *)
(* tests both with.                                                        *)
(*                                                                         *)
(* The context is State(i32).  The integer type is modelled as a signed    *)
(* two's complement integer of Width bits, so that clamping is reached by  *)
(* short runs.                                                             *)
(***************************************************************************)
EXTENDS Integers, Sequences, FiniteSets

\* ------------------------------------------------------------------------
\* Bounds of the model
\* ------------------------------------------------------------------------

\* Bits of the signed integer standing for i32.
Width == 5

\* TimeMachine runs: at most this many execute calls per run.
MaxExec == 3

\* Direct command runs: at most this many execute/undo calls per instance.
MaxCmdOps == 4

\* Twin runs (TimeMachine beside a bare context): executes per run.
MaxTwin == 3

\* ------------------------------------------------------------------------
\* The integer type
\* ------------------------------------------------------------------------

MAX == 2 ^ (Width - 1) - 1

MIN == -(2 ^ (Width - 1))

I32 == MIN .. MAX

\* Two's complement wrap of a mathematical integer into I32.
Wrap(v) == ((v - MIN) % (2 ^ Width)) + MIN

\* checked_*: <<v>> when the mathematical result is representable, else <<>>.
Checked(v) == IF v >= MIN /\ v <= MAX THEN <<v>> ELSE <<>>

\* A plausible slip: wrapping_add in place of saturating_add.
WrappingAdd(a, b) == Wrap(a + b)

\* i32::saturating_add: on overflow the bound on the side of the operand's sign.
SaturatingAdd(a, b) ==
    LET r == Checked(a + b)
    IN  IF r # <<>> THEN r[1] ELSE IF b < 0 THEN MIN ELSE MAX

\* A plausible slip: wrapping_sub in place of saturating_sub.
WrappingSub(a, b) == Wrap(a - b)

\* i32::saturating_sub.
SaturatingSub(a, b) ==
    LET r == Checked(a - b)
    IN  IF r # <<>> THEN r[1] ELSE IF b < 0 THEN MAX ELSE MIN

\* A plausible slip: wrapping_mul in place of saturating_mul.
WrappingMul(a, b) == Wrap(a * b)

\* i32::saturating_mul: on overflow MAX when the signs agree, else MIN.
SaturatingMul(a, b) ==
    LET r == Checked(a * b)
    IN  IF r # <<>> THEN r[1] ELSE IF (a < 0) = (b < 0) THEN MAX ELSE MIN

\* ------------------------------------------------------------------------
\* Commands.  A command value is a record
\*   kind : "Translate" | "Scale"
\*   p    : the i32 parameter (field .0)
\*   snap : Option<i32> as a sequence, <<>> for None and <<v>> for Some(v)
\*          (field .1 of Scale; Translate has no such field, always <<>>)
\*   id   : the identity of the instance (which object it is)
\* ------------------------------------------------------------------------

\* Translate(d)
Translate(d, id) == [kind |-> "Translate", p |-> d, snap |-> <<>>, id |-> id]

\* Scale::from(k)
ScaleFrom(k, id) == [kind |-> "Scale", p |-> k, snap |-> <<>>, id |-> id]

\* Each command operation returns the command and the context after the call.
Translate_execute(self, ctx) ==
    [cmd |-> self, ctx |-> SaturatingAdd(ctx, self.p)]

\* A plausible slip: undo copied from execute, adding in place of subtracting.
Translate_undo_add(self, ctx) ==
    [cmd |-> self, ctx |-> SaturatingAdd(ctx, self.p)]

Translate_undo(self, ctx) ==
    [cmd |-> self, ctx |-> SaturatingSub(ctx, self.p)]

\* A plausible slip: the snapshot is taken after the multiplication.
Scale_execute_late(self, ctx) ==
    LET r == SaturatingMul(ctx, self.p)
    IN  [cmd |-> [self EXCEPT !.snap = <<r>>], ctx |-> r]

Scale_execute(self, ctx) ==
    [cmd |-> [self EXCEPT !.snap = <<ctx>>], ctx |-> SaturatingMul(ctx, self.p)]

\* A plausible slip: the snapshot is read (Option<i32> is Copy) and not taken.
Scale_undo_peek(self, ctx) ==
    [cmd |-> self,
     ctx |-> IF self.snap # <<>> THEN self.snap[1] ELSE ctx]

\* A plausible slip: self.1.take().unwrap_or_default() in place of if let Some.
Scale_undo_default(self, ctx) ==
    [cmd |-> [self EXCEPT !.snap = <<>>],
     ctx |-> IF self.snap # <<>> THEN self.snap[1] ELSE 0]

Scale_undo(self, ctx) ==
    [cmd |-> [self EXCEPT !.snap = <<>>],
     ctx |-> IF self.snap # <<>> THEN self.snap[1] ELSE ctx]

\* Dynamic dispatch of Command::execute / Command::undo on the command's type.
Command_execute(cmd, ctx) ==
    IF cmd.kind = "Translate" THEN Translate_execute(cmd, ctx)
    ELSE Scale_execute(cmd, ctx)

Command_undo(cmd, ctx) ==
    IF cmd.kind = "Translate" THEN Translate_undo(cmd, ctx)
    ELSE Scale_undo(cmd, ctx)

\* ------------------------------------------------------------------------
\* Commander on a bare context
\* ------------------------------------------------------------------------

\* The derived Commander::execute: cmd.execute(self); the command, moved or
\* copied into the parameter, is dropped at the end of the call.
Derived_execute(st, cmd) == Command_execute(cmd, st).ctx

\* A plausible slip: a default undo that resets the context to its default.
Commander_undo_reset(st) == 0

\* The default Commander::undo: fn undo(&mut self) {}
Commander_undo(st) == st

\* ------------------------------------------------------------------------
\* TimeMachine.  A value is [machine |-> context, history |-> sequence of
\* commands, invoked |-> ids of the commands whose undo the call invoked].
\* ------------------------------------------------------------------------

\* State::default(): #[derive(Default)] on State(i32) gives State(0).
State_default == 0

\* A plausible slip: from() builds the default context and drops its argument.
TimeMachine_from_default(x) ==
    [machine |-> State_default, history |-> <<>>, invoked |-> <<>>]

\* From<T>::from(machine)
TimeMachine_from(x) == [machine |-> x, history |-> <<>>, invoked |-> <<>>]

\* Default::default()
TimeMachine_default ==
    [machine |-> State_default, history |-> <<>>, invoked |-> <<>>]

\* A plausible slip: the command is pushed but never executed.
TimeMachine_execute_push_only(tm, cmd) ==
    [machine |-> tm.machine,
     history |-> Append(tm.history, cmd),
     invoked |-> <<>>]

\* A plausible slip: the command is inserted at the front (history.insert(0, _)).
TimeMachine_execute_front(tm, cmd) ==
    LET r == Command_execute(cmd, tm.machine)
    IN  [machine |-> r.ctx,
         history |-> <<r.cmd>> \o tm.history,
         invoked |-> <<>>]

\* Commander::execute of TimeMachine: execute on the machine, then push.
TimeMachine_execute(tm, cmd) ==
    LET r == Command_execute(cmd, tm.machine)
    IN  [machine |-> r.ctx,
         history |-> Append(tm.history, r.cmd),
         invoked |-> <<>>]

\* A plausible slip: the oldest entry is removed (history.remove(0)).
TimeMachine_undo_fifo(tm) ==
    IF tm.history = <<>> THEN [tm EXCEPT !.invoked = <<>>]
    ELSE LET r == Command_undo(Head(tm.history), tm.machine)
         IN  [machine |-> r.ctx,
              history |-> Tail(tm.history),
              invoked |-> <<Head(tm.history).id>>]

\* A plausible slip: the last entry is read (history.last_mut()) and not popped.
TimeMachine_undo_keep(tm) ==
    IF tm.history = <<>> THEN [tm EXCEPT !.invoked = <<>>]
    ELSE LET r == Command_undo(tm.history[Len(tm.history)], tm.machine)
         IN  [machine |-> r.ctx,
              history |-> tm.history,
              invoked |-> <<tm.history[Len(tm.history)].id>>]

\* A plausible slip: an empty history resets the machine to its default.
TimeMachine_undo_reset(tm) ==
    IF tm.history = <<>>
    THEN [machine |-> 0, history |-> <<>>, invoked |-> <<>>]
    ELSE LET r == Command_undo(tm.history[Len(tm.history)], tm.machine)
         IN  [machine |-> r.ctx,
              history |-> SubSeq(tm.history, 1, Len(tm.history) - 1),
              invoked |-> <<tm.history[Len(tm.history)].id>>]

\* Commander::undo of TimeMachine: pop the last command, if any, and undo it.
TimeMachine_undo(tm) ==
    IF tm.history = <<>> THEN [tm EXCEPT !.invoked = <<>>]
    ELSE LET r == Command_undo(tm.history[Len(tm.history)], tm.machine)
         IN  [machine |-> r.ctx,
              history |-> SubSeq(tm.history, 1, Len(tm.history) - 1),
              invoked |-> <<tm.history[Len(tm.history)].id>>]

\* ------------------------------------------------------------------------
\* State
\* ------------------------------------------------------------------------
VARIABLES
    machine,    \* TimeMachine.machine: the context State(i32)
    history,    \* TimeMachine.history: Vec<Box<dyn Command<State>>>
    initial,    \* the context value the run started from
    nExec,      \* execute calls made on the TimeMachine so far
    nUndo,      \* undo calls made on a non-empty history so far
    undoLog,    \* ids of the commands whose Command::undo ran, in order
    op,         \* the last call made
    prev,       \* machine, history and undoLog as they were before that call
    state,      \* a bare context State(i32) with the derived Commander
    cmd,        \* a command instance the caller calls directly
    ops,        \* the calls made directly on cmd, in order
    pre,        \* the bare context as it was before the last call on it
    cmds,       \* the command values the caller retains (a tuple)
    before,     \* the context before each execute call, in call order
    nDone,      \* how many of cmds were passed to Commander::execute
    nUndone,    \* how many of cmds had undo called on the retained value
    call        \* the last call of the caller of the bare context

vars == <<machine, history, initial, nExec, nUndo, undoLog, op, prev,
          state, cmd, ops, pre, cmds, before, nDone, nUndone, call>>

tmVars == <<machine, history, nExec, nUndo, undoLog, op, prev>>

cmdVars == <<cmd, ops>>

bareVars == <<cmds, before, nDone, nUndone, call>>

\* The values of the variables a specification does not use.
TimeMachineUnused ==
    /\ machine = 0 /\ history = <<>> /\ nExec = 0 /\ nUndo = 0
    /\ undoLog = <<>> /\ op = "none"
    /\ prev = [machine |-> 0, history |-> <<>>, undoLog |-> <<>>]

CommandUnused == cmd = Translate(0, 0) /\ ops = <<>>

BareUnused ==
    /\ cmds = <<>> /\ before = <<>> /\ nDone = 0 /\ nUndone = 0
    /\ call = "none"

\* ------------------------------------------------------------------------
\* Inputs
\* ------------------------------------------------------------------------

\* Context values a run starts from.
InitCtx == {MIN, -1, 0, 1, MAX}

\* Parameters of the commands given to a TimeMachine.
TranslateParams == {5, 10, -7}

ScaleParams == {0, 2, -3}

\* The commands a caller may construct, with identity id.
NewCommands(id) ==
    {Translate(d, id) : d \in TranslateParams}
        \cup {ScaleFrom(k, id) : k \in ScaleParams}

\* ------------------------------------------------------------------------
\* Specification Spec: a TimeMachine<State> under execute and undo calls
\* ------------------------------------------------------------------------

\* The TimeMachine is built by TimeMachine::from(State(initial)) or by
\* TimeMachine::default(); initial is the value supplied, or the default of
\* the context type.
Init ==
    /\ \/ /\ op = "from"
          /\ initial \in InitCtx
          /\ machine = TimeMachine_from(initial).machine
          /\ history = TimeMachine_from(initial).history
       \/ /\ op = "default"
          /\ initial = State_default
          /\ machine = TimeMachine_default.machine
          /\ history = TimeMachine_default.history
    /\ nExec = 0 /\ nUndo = 0 /\ undoLog = <<>>
    /\ prev = [machine |-> initial, history |-> <<>>, undoLog |-> <<>>]
    /\ state = 0 /\ pre = 0
    /\ CommandUnused
    /\ BareUnused

\* state.execute(c) on the TimeMachine, c a freshly constructed command.
Execute ==
    /\ nExec < MaxExec
    /\ \E c \in NewCommands(nExec + 1) :
         LET tm == TimeMachine_execute(
                       [machine |-> machine, history |-> history,
                        invoked |-> <<>>], c)
         IN  /\ machine' = tm.machine
             /\ history' = tm.history
             /\ undoLog' = undoLog \o tm.invoked
    /\ nExec' = nExec + 1
    /\ op' = "execute"
    /\ prev' = [machine |-> machine, history |-> history, undoLog |-> undoLog]
    /\ before' = Append(before, machine)
    /\ UNCHANGED <<initial, nUndo, state, pre, cmdVars,
                   cmds, nDone, nUndone, call>>

\* state.undo() on the TimeMachine.
Undo ==
    /\ LET tm == TimeMachine_undo(
                     [machine |-> machine, history |-> history,
                      invoked |-> <<>>])
       IN  /\ machine' = tm.machine
           /\ history' = tm.history
           /\ undoLog' = undoLog \o tm.invoked
    /\ nUndo' = IF history # <<>> THEN nUndo + 1 ELSE nUndo
    /\ op' = "undo"
    /\ prev' = [machine |-> machine, history |-> history, undoLog |-> undoLog]
    /\ UNCHANGED <<initial, nExec, state, pre, cmdVars, bareVars>>

Next == Execute \/ Undo

Spec == Init /\ [][Next]_vars

\* ------------------------------------------------------------------------
\* Specification SpecCmd: one command instance called directly on a context,
\* cmd.execute(&mut state) and cmd.undo(&mut state), for every context value
\* and every parameter of the integer type
\* ------------------------------------------------------------------------

AllCommands ==
    {Translate(d, 0) : d \in I32} \cup {ScaleFrom(k, 0) : k \in I32}

InitCmd ==
    /\ initial \in I32
    /\ state = initial /\ pre = initial
    /\ cmd \in AllCommands
    /\ ops = <<>>
    /\ TimeMachineUnused
    /\ BareUnused

\* cmd.execute(&mut state)
DirectExecute ==
    /\ Len(ops) < MaxCmdOps
    /\ LET r == Command_execute(cmd, state)
       IN  cmd' = r.cmd /\ state' = r.ctx
    /\ ops' = Append(ops, "execute")
    /\ pre' = state
    /\ UNCHANGED <<initial, tmVars, bareVars>>

\* cmd.undo(&mut state)
DirectUndo ==
    /\ Len(ops) < MaxCmdOps
    /\ LET r == Command_undo(cmd, state)
       IN  cmd' = r.cmd /\ state' = r.ctx
    /\ ops' = Append(ops, "undo")
    /\ pre' = state
    /\ UNCHANGED <<initial, tmVars, bareVars>>

NextCmd == DirectExecute \/ DirectUndo

SpecCmd == InitCmd /\ [][NextCmd]_vars

\* ------------------------------------------------------------------------
\* Specification SpecBare: a bare State with the derived Commander, and a
\* caller that retains its Copy command values, passes them to
\* Commander::execute in order and then calls undo on the retained values in
\* reverse order (test can_undo, example state_machine)
\* ------------------------------------------------------------------------

\* How many command values the caller retains.
MaxCmds == 3

InitBare ==
    /\ initial \in InitCtx
    /\ state = initial /\ pre = initial
    /\ cmds \in [1 .. MaxCmds -> NewCommands(0)]
    /\ before = <<>> /\ nDone = 0 /\ nUndone = 0
    /\ call = "none"
    /\ TimeMachineUnused
    /\ CommandUnused

\* state.execute(cmds.i): the command is Copy, so the callee receives a copy
\* and the caller's value is left as it was.
BareExecute ==
    /\ nDone < Len(cmds) /\ nUndone = 0
    /\ state' = Derived_execute(state, cmds[nDone + 1])
    /\ before' = Append(before, state)
    /\ nDone' = nDone + 1
    /\ call' = "execute"
    /\ pre' = state
    /\ UNCHANGED <<cmds, nUndone, initial, tmVars, cmdVars>>

\* cmds.i.undo(&mut state) on the caller's retained value.
RetainedUndo ==
    /\ nUndone < nDone
    /\ LET i == nDone - nUndone
           r == Command_undo(cmds[i], state)
       IN  /\ cmds' = [cmds EXCEPT ![i] = r.cmd]
           /\ state' = r.ctx
    /\ nUndone' = nUndone + 1
    /\ call' = "command_undo"
    /\ pre' = state
    /\ UNCHANGED <<before, nDone, initial, tmVars, cmdVars>>

\* state.undo(): the default Commander::undo.
BareUndo ==
    /\ state' = Commander_undo(state)
    /\ call' = "commander_undo"
    /\ pre' = state
    /\ UNCHANGED <<cmds, before, nDone, nUndone, initial, tmVars, cmdVars>>

NextBare == BareExecute \/ RetainedUndo \/ BareUndo

SpecBare == InitBare /\ [][NextBare]_vars

\* ------------------------------------------------------------------------
\* Specification SpecTwin: a TimeMachine<State> and a bare State started from
\* the same value and given the same commands
\* ------------------------------------------------------------------------

InitTwin ==
    /\ initial \in InitCtx
    /\ machine = TimeMachine_from(initial).machine
    /\ history = TimeMachine_from(initial).history
    /\ state = initial /\ pre = initial
    /\ cmds = <<>>
    /\ nExec = 0 /\ nUndo = 0 /\ undoLog = <<>>
    /\ op = "from"
    /\ prev = [machine |-> initial, history |-> <<>>, undoLog |-> <<>>]
    /\ before = <<>> /\ nDone = 0 /\ nUndone = 0 /\ call = "none"
    /\ CommandUnused

\* The same command c given to both: tm.execute(c) and state.execute(c).
TwinExecute ==
    /\ nExec < MaxTwin
    /\ \E c \in NewCommands(nExec + 1) :
         LET tm == TimeMachine_execute(
                       [machine |-> machine, history |-> history,
                        invoked |-> <<>>], c)
         IN  /\ machine' = tm.machine
             /\ history' = tm.history
             /\ state' = Derived_execute(state, c)
             /\ cmds' = Append(cmds, c)
    /\ nExec' = nExec + 1
    /\ op' = "execute"
    /\ prev' = [machine |-> machine, history |-> history, undoLog |-> undoLog]
    /\ pre' = state
    /\ UNCHANGED <<initial, nUndo, undoLog, cmdVars,
                   before, nDone, nUndone, call>>

NextTwin == TwinExecute

SpecTwin == InitTwin /\ [][NextTwin]_vars

\* ------------------------------------------------------------------------
\* Specification SpecReuse: one command instance called directly on a bare
\* context, cmd.execute(&mut state) and cmd.undo(&mut state), while other
\* commands are executed on the same context through Commander::execute
\* ------------------------------------------------------------------------

\* The other commands executed on the context.
OtherCommands == {Translate(5, 1), Translate(-7, 1)}

InitReuse ==
    /\ initial \in InitCtx
    /\ state = initial /\ pre = initial
    /\ cmd \in NewCommands(0)
    /\ ops = <<>>
    /\ TimeMachineUnused
    /\ BareUnused

\* state.execute(c), c another command than cmd.
OtherExecute ==
    /\ Len(ops) < MaxCmdOps
    /\ \E c \in OtherCommands : state' = Derived_execute(state, c)
    /\ ops' = Append(ops, "other")
    /\ pre' = state
    /\ UNCHANGED <<cmd, initial, tmVars, bareVars>>

NextReuse == DirectExecute \/ DirectUndo \/ OtherExecute

SpecReuse == InitReuse /\ [][NextReuse]_vars

\* ------------------------------------------------------------------------
\* Properties
\* ------------------------------------------------------------------------

\* The mathematical value v clamped to [MIN, MAX].
Clamp(v) == IF v > MAX THEN MAX ELSE IF v < MIN THEN MIN ELSE v

Range(s) == {s[i] : i \in 1 .. Len(s)}

Greatest(S) == CHOOSE m \in S : \A n \in S : n <= m

\* The context after executing the commands of h, front to back, from x.
RECURSIVE Replay(_, _)
Replay(h, x) ==
    IF h = <<>> THEN x
    ELSE Replay(Tail(h), Command_execute(Head(h), x).ctx)

\* C1 (Spec): context reconstruction.  In every reachable state of a
\* TimeMachine, replaying the commands in the history, front to back, from
\* the initial context yields the current context; with an empty history the
\* context is the initial context.
C1_ContextReconstruction == Replay(history, initial) = machine

\* C2 (Spec): history depth.  The history length is the number of execute
\* calls minus the number of undo calls made on a non-empty history; an
\* execute adds exactly one entry and such an undo removes exactly one.
C2_HistoryDepth ==
    /\ Len(history) = nExec - nUndo
    /\ op = "execute" => Len(history) = Len(prev.history) + 1
    /\ (op = "undo" /\ prev.history # <<>>)
          => Len(history) = Len(prev.history) - 1

\* C2 witness: executes and undos interleaved, an undo just shortened a
\* history of two entries.
C2_Witness ==
    /\ op = "undo" /\ Len(prev.history) = 2 /\ Len(history) = 1
    /\ nExec = 3 /\ nUndo = 2

\* C3 (Spec): strict LIFO.  An undo on a non-empty history invokes
\* Command::undo on exactly one command, the most recently executed one not
\* yet undone; after exactly three executes A, B, C (the first undo reverses
\* C, so it follows all three), three undos reverse C, B, A in that order.
C3_StrictLifo ==
    /\ (op = "undo" /\ prev.history # <<>>)
          => undoLog = Append(prev.undoLog,
                          Greatest((1 .. nExec) \ Range(prev.undoLog)))
    /\ (nExec = 3 /\ Len(undoLog) = 3 /\ undoLog[1] = 3)
          => undoLog = <<3, 2, 1>>

\* C3 witness: A, B, C executed and then undone, C first and A last.
C3_Witness ==
    /\ op = "undo" /\ nExec = 3 /\ undoLog = <<3, 2, 1>> /\ history = <<>>

\* C4 (SpecCmd): round trip.  For every command and every context value x,
\* execute and then undo on the same instance leaves the context equal to x.
C4_RoundTrip == ops = <<"execute", "undo">> => state = initial

\* C5 (Spec): an undo on an empty history changes neither the context nor the
\* history, and invokes no command.
C5_EmptyUndo ==
    (op = "undo" /\ prev.history = <<>>)
        => /\ machine = prev.machine
           /\ history = <<>>
           /\ undoLog = prev.undoLog

\* C5 witness: the history was emptied by earlier undos, the context is not
\* the default value, and undo is called again.
C5_Witness ==
    /\ op = "undo" /\ prev.history = <<>>
    /\ nExec >= 1 /\ nUndo = nExec
    /\ machine # 0

\* The test can_undo: State(0) and the tuple (Translate(5), Translate(10),
\* Scale::from(0)).
IsCanUndoTest ==
    /\ initial = 0
    /\ Len(cmds) = 3
    /\ cmds[1].kind = "Translate" /\ cmds[1].p = 5
    /\ cmds[2].kind = "Translate" /\ cmds[2].p = 10
    /\ cmds[3].kind = "Scale" /\ cmds[3].p = 0

\* C6 (SpecBare): manual undo on retained command values.  After
\* Translate(5), Translate(10), Scale(0) are executed from 0 through the
\* derived Commander::execute, undo on the retained values in reverse order
\* restores the value the context had before each execute: 15, then 5,
\* then 0.
C6_RetainedUndo ==
    (IsCanUndoTest /\ nDone = 3 /\ call = "command_undo")
        => /\ state = before[nDone - nUndone + 1]
           /\ state = <<15, 5, 0>>[nUndone]

\* C7 (SpecCmd): saturating arithmetic.  Translate.execute, Translate.undo
\* and Scale.execute leave the context at the mathematical sum, difference
\* and product clamped to [MIN, MAX], never at a wrapped value; Translate(+1)
\* on MAX leaves MAX.
C7_Saturating ==
    /\ (ops # <<>> /\ ops[Len(ops)] = "execute" /\ cmd.kind = "Translate")
          => state = Clamp(pre + cmd.p)
    /\ (ops # <<>> /\ ops[Len(ops)] = "undo" /\ cmd.kind = "Translate")
          => state = Clamp(pre - cmd.p)
    /\ (ops # <<>> /\ ops[Len(ops)] = "execute" /\ cmd.kind = "Scale")
          => state = Clamp(pre * cmd.p)
    /\ (ops = <<"execute">> /\ cmd.kind = "Translate" /\ cmd.p = 1
            /\ initial = MAX)
          => state = MAX

\* C7 witness: Translate(+1) executed on a context at MAX.
C7_Witness ==
    /\ ops = <<"execute">> /\ cmd.kind = "Translate" /\ cmd.p = 1
    /\ initial = MAX /\ state = MAX

C9_Transparent ==
    /\ machine = state
    /\ Len(history) = Len(cmds)
    /\ \A i \in 1 .. Len(cmds) :
          /\ history[i].kind = cmds[i].kind
          /\ history[i].p = cmds[i].p
          /\ history[i].id = cmds[i].id

\* C9 witness: three commands executed, the context moved and clamped at MAX.
C9_Witness ==
    /\ Len(cmds) = 3 /\ Len(history) = 3
    /\ machine = MAX /\ state = MAX /\ initial = 0

\* C10 (SpecBare): the default Commander::undo on a bare context leaves the
\* context unchanged, in any state.
C10_DefaultUndoNoop == call = "commander_undo" => state = pre

\* C10 witness: state.undo() called after executes moved the context.
C10_Witness ==
    /\ call = "commander_undo" /\ nDone >= 2
    /\ state # initial /\ state # 0 /\ state = pre

\* C11 (Spec): construction.  A TimeMachine built from a context value or by
\* default construction starts with an empty history and a context equal to
\* the supplied value, respectively the default value of the context type.
C11_Construction ==
    /\ op = "from"
          => history = <<>> /\ Len(history) = 0 /\ machine = initial
    /\ op = "default"
          => history = <<>> /\ Len(history) = 0 /\ machine = State_default

\* C11 witness: a TimeMachine just built from a context that is not the
\* default value.
C11_Witness ==
    /\ op = "from" /\ initial = MAX /\ machine = MAX /\ history = <<>>
    /\ nExec = 0

\* The ids of the commands held in a history.
Ids(h) == {h[i].id : i \in 1 .. Len(h)}

\* C12 (Spec): the history is a pure stack.  An execute appends exactly one
\* entry at the tail and leaves every earlier entry as it was (identity,
\* order, parameter, captured undo-state); an undo on a non-empty history
\* leaves the history before it without its last entry; an entry removed by
\* an undo is never in the history again.
C12_PureStack ==
    /\ op = "execute"
          => /\ Len(history) = Len(prev.history) + 1
             /\ SubSeq(history, 1, Len(history) - 1) = prev.history
             /\ history[Len(history)].id = nExec
             /\ history[Len(history)].id \notin Ids(prev.history)
    /\ (op = "undo" /\ prev.history # <<>>)
          => history = SubSeq(prev.history, 1, Len(prev.history) - 1)
    /\ Ids(history) \cap Range(undoLog) = {}

\* C12 witness: an execute on top of a Scale entry holding its snapshot,
\* after an earlier entry was removed by an undo.
C12_Witness ==
    /\ op = "execute" /\ Len(history) = 2 /\ Len(undoLog) >= 1
    /\ history[1].kind = "Scale" /\ history[1].snap # <<>>
    /\ <<history[1]>> = prev.history

\* C15 (Spec): every Scale entry of the history holds, as its snapshot, the
\* context value from immediately before that entry was executed, and an
\* undo that pops a Scale entry leaves the context equal to that snapshot,
\* whether or not a multiplication or another command's execute or undo
\* clamped.
C15_ScaleSnapshot ==
    /\ \A i \in 1 .. Len(history) :
          history[i].kind = "Scale"
              => history[i].snap = <<before[history[i].id]>>
    /\ (op = "undo" /\ prev.history # <<>>
            /\ prev.history[Len(prev.history)].kind = "Scale")
          => /\ machine = before[prev.history[Len(prev.history)].id]
             /\ <<machine>> = prev.history[Len(prev.history)].snap

\* C15 witness: an undo popped a Scale whose multiplication had clamped, and
\* the context is back at the value from before it.
C15_Witness ==
    /\ op = "undo" /\ prev.history # <<>>
    /\ prev.history[Len(prev.history)].kind = "Scale"
    /\ prev.machine \in {MIN, MAX}
    /\ machine \notin {MIN, MAX, 0}
    /\ machine * prev.history[Len(prev.history)].p \notin I32

\* The calls made on cmd itself, without the executes of other commands.
IsCmdOp(o) == o # "other"

CmdOps == SelectSeq(ops, IsCmdOp)

\* C13 (SpecReuse): a Scale's captured undo-state is consumed by undo.  After
\* an execute and an undo on one Scale instance, a second undo with no
\* execute of that instance in between leaves the context unchanged, whatever
\* the context has become in the meantime, and the instance holds no
\* snapshot after an undo.
C13_SnapshotConsumed ==
    /\ (cmd.kind = "Scale" /\ ops # <<>> /\ ops[Len(ops)] = "undo")
          => cmd.snap = <<>>
    /\ (cmd.kind = "Scale" /\ ops # <<>> /\ ops[Len(ops)] = "undo"
            /\ Len(CmdOps) >= 3
            /\ CmdOps[Len(CmdOps) - 1] = "undo"
            /\ CmdOps[Len(CmdOps) - 2] = "execute")
          => state = pre

\* C13 witness: execute and undo on a Scale, another command moves the
\* context away from the old snapshot, and undo is called again.
C13_Witness ==
    /\ cmd.kind = "Scale"
    /\ ops = <<"execute", "undo", "other", "undo">>
    /\ state = pre /\ state # initial

====
